---- MODULE Spec2Model ----
(***************************************************************************)
(* Plateful: the recipe session state of App.tsx, the popular gallery, the *)
(* per-recipe image loops (generateAndSetImageForRecipe) and the gateway   *)
(* functions of services/geminiService.ts, as one state machine.           *)
(*                                                                         *)
(* Every await of the source is a point where the handler is suspended;    *)
(* the code between two awaits runs atomically (single-threaded event      *)
(* loop), so each action below is one such block: a click handler, or the  *)
(* continuation that runs when a gateway call returns or raises.           *)
(***************************************************************************)
EXTENDS Integers, Sequences, FiniteSets, TLC

(* ----------------------------- bounds ---------------------------------- *)
MaxLoops == 2      \* image loops dispatched in one run of the application
MaxRaw == 2        \* length of a raw recipe list answered by the model
MaxName == 1       \* distinct recipe names the model answers with
MaxImage == 1      \* distinct pictures the user can select
MaxSaved == 1      \* length of the saved list
MaxCuisines == 1   \* cuisine buttons the user toggles
MaxMoreName == 2   \* distinct recipe names in the rounds of SpecMore
MaxLongRaw == 4    \* length of a raw recipe list in SpecFetch
MaxFetchName == 2  \* distinct recipe names in SpecFetch
MaxFetchIds == 6  \* identifiers handed out in SpecFetch
MaxInstrLen == 5   \* characters of an instruction step in SpecCard
MaxNameLen == 3    \* characters of a recipe name in SpecShare
MaxStored == 3     \* recipes of earlier sessions in the stored saved list

(* ------------------------- program constants --------------------------- *)
MAX_ATTEMPTS == 2
SliceLimit == 3

allCuisines == <<"Healthy", "Italian", "Mexican", "Indian", "Asian", "American">>
availableCuisines == {allCuisines[i] : i \in 1..MaxCuisines}

NoError == "null"
SelectImageMsg == "Please select an image first."
NotFoodMsg == "This doesn't appear to be food. Here are some popular recipe ideas instead!"
ImageTroubleMsg == "We had trouble creating an image for one or more recipes. For best results, try starting over with a clearer photo of your ingredients."
FetchErrMsg == "err.message"
NotListMsg == "AI did not return a valid list of recipes."

(* What a text fetch can raise: the message of a transport or JSON.parse  *)
(* error, or the message parseAndPrepareRecipes throws for a non-list.    *)
FetchErrors == {FetchErrMsg, NotListMsg}
LinkErrMsg == "The shared recipe link is invalid or corrupted."

(* errorIncludesNotFood: error?.includes("This doesn't appear to be food") *)
errorIncludesNotFood(e) == e = NotFoodMsg

(* ------------------------------ values --------------------------------- *)
NULL == <<>>
Some(x) == <<x>>

Names == 1..MaxName

(* A record of the model's JSON answer (recipeSchema), reduced to the     *)
(* fields the orchestration reads.  The prompt the model writes for a     *)
(* dish is tagged "model"; the rewritten prompt is tagged "refined".      *)
recipeSchema(n) == [recipeName |-> n, imagePrompt |-> <<"model", n>>]

RawListsOver(N) == UNION {[1..k -> {recipeSchema(n) : n \in N}] : k \in 0..MaxRaw}

Min(a, b) == IF a < b THEN a ELSE b

SeqMap(F(_), s) == [i \in 1..Len(s) |-> F(s[i])]
SeqFilter(P(_), s) == SelectSeq(s, P)
Range(s) == {s[i] : i \in 1..Len(s)}

(* The Recipe type: imageUrl 0 is undefined, imageError is "unset" when   *)
(* the optional field is absent.                                          *)
Recipe(i, raw) ==
    [id |-> i, recipeName |-> raw.recipeName, imagePrompt |-> raw.imagePrompt,
     imageUrl |-> 0, imageError |-> "unset"]

(* slice(-3) for slice(0, 3). *)
parseAndPrepareRecipes_lastThree(raw, u) ==
    LET n == Min(SliceLimit, Len(raw))
        parsed == SubSeq(raw, Len(raw) - n + 1, Len(raw))
    IN  [i \in 1..Len(parsed) |-> Recipe(u + i, parsed[i])]
(* parseAndPrepareRecipes: slice(0, 3), then one fresh id per record.     *)
(* u is the number of identifiers crypto.randomUUID has handed out.       *)
parseAndPrepareRecipes(raw, u) ==
    LET parsed == SubSeq(raw, 1, Min(SliceLimit, Len(raw)))
    IN  [i \in 1..Len(parsed) |-> Recipe(u + i, parsed[i])]

(* recipesData.map(r => ({ ...r, id: crypto.randomUUID() }))              *)
recipesWithPlaceholders(data, u) ==
    [i \in 1..Len(data) |-> [data[i] EXCEPT !.id = u + i]]

(* The image a generateRecipeImage call answers with: a fresh data URL,   *)
(* one per call, named by the loop and the attempt that asked for it.     *)
generatedBase64(id, attempt) == id * MAX_ATTEMPTS + attempt

refinedPrompt(r) == <<"refined", r.recipeName>>

NamesOf(list) == [i \in 1..Len(list) |-> list[i].recipeName]
IdsOf(list) == [i \in 1..Len(list) |-> list[i].id]


(* ------------------------------ state ---------------------------------- *)
VARIABLES
    image,              \* useState image: 0 is null, else the picture chosen
    recipes,            \* useState recipes: NULL or Some(list of Recipe)
    isLoading,          \* useState isLoading
    error,              \* useState error: NoError is null
    savedRecipes,       \* useState savedRecipes
    popularRecipes,     \* useState popularRecipes
    selectedCuisines,   \* useState selectedCuisines
    uuid,               \* identifiers handed out by crypto.randomUUID
    popular,            \* position of fetchPopular: "fetch" or "done"
    req,                \* the handleGetRecipes / handleLoadMoreRecipes call
    loops,              \* the generateAndSetImageForRecipe calls in progress, by recipe id
    timerConfig,        \* useState timerConfig: NULL or Some([duration, description])
    timerWidget,        \* the mounted TimerWidget: NULL or Some([timeLeft, isActive])
    clipboard,          \* what handleShare last wrote with navigator.clipboard.writeText
    location            \* window.location.search: NULL, or Some(value of ?recipe=)

(* The state the recipe session does not touch. *)
pageVars == <<timerConfig, timerWidget, clipboard, location>>

vars == <<image, recipes, isLoading, error, savedRecipes, popularRecipes,
          selectedCuisines, uuid, popular, req, loops, timerConfig, timerWidget,
          clipboard, location>>

(* The locals of one handleGetRecipes / handleLoadMoreRecipes call and the *)
(* gateway calls it has made.                                              *)
idleReq ==
    [kind |-> "none", pc |-> "idle", exclude |-> <<>>, cuisines |-> <<>>,
     isFood |-> "unset", isGenericFallback |-> FALSE, batch |-> <<>>,
     classifyCalls |-> 0, imageFetchCalls |-> 0, genericFetchCalls |-> 0,
     classifyLog |-> <<>>, rawLen |-> 0]

Init ==
    /\ image = 0
    /\ recipes = NULL
    /\ isLoading = FALSE
    /\ error = NoError
    /\ savedRecipes = <<>>
    /\ popularRecipes = <<>>
    /\ selectedCuisines = <<>>
    /\ uuid = 0
    /\ popular = "fetch"
    /\ req = idleReq
    /\ loops = [i \in {} |-> 0]
    /\ timerConfig = NULL
    /\ timerWidget = NULL
    /\ clipboard = NULL
    /\ location = NULL

(* ------------------- generateAndSetImageForRecipe ---------------------- *)
(* attempts++ and the generateRecipeImage(currentRecipe.imagePrompt) call  *)
startAttempt(l) ==
    [l EXCEPT !.attempts = @ + 1, !.pc = "gen",
              !.prompts = Append(@, l.currentRecipe.imagePrompt)]

(* The call itself: the locals before the loop, then the first attempt.   *)
generateAndSetImageForRecipe(recipe) ==
    startAttempt([currentRecipe |-> recipe, imageUrl |-> 0, isValid |-> FALSE,
                  attempts |-> 0, pc |-> "gen", generated |-> 0,
                  prompts |-> <<>>, genLog |-> <<>>, valCalls |-> 0,
                  valLog |-> <<>>])

(* The loop condition with <= for <. *)
whileCondition_offByOne(l) == ~l.isValid /\ l.attempts <= MAX_ATTEMPTS
(* The loop condition without its !isValid test. *)
whileCondition_budgetOnly(l) == l.attempts < MAX_ATTEMPTS
whileCondition(l) == ~l.isValid /\ l.attempts < MAX_ATTEMPTS

(* The last generated image kept also when it was not accepted. *)
finalRecipeState_keepsImage(l) ==
    [l.currentRecipe EXCEPT
        !.imageUrl = l.generated,
        !.imageError = IF l.isValid THEN "false" ELSE "true"]
finalRecipeState(l) ==
    [l.currentRecipe EXCEPT
        !.imageUrl = IF l.isValid THEN l.imageUrl ELSE 0,
        !.imageError = IF l.isValid THEN "false" ELSE "true"]

(* The entries matched by their name, not their identifier. *)
replaceById_byName(list, final) ==
    [i \in 1..Len(list) |->
        IF list[i].recipeName = final.recipeName THEN final ELSE list[i]]
(* The map without its identifier test. *)
replaceById_everyEntry(list, final) == [i \in 1..Len(list) |-> final]
(* prev.map(r => r.id === finalRecipeState.id ? finalRecipeState : r)     *)
replaceById(list, final) ==
    [i \in 1..Len(list) |-> IF list[i].id = final.id THEN final ELSE list[i]]

(* The displayed set rebuilt from the loop's own recipe alone. *)
setRecipesFinal_ownOnly(prev, final) ==
    IF prev = NULL THEN NULL ELSE Some(<<final>>)
(* setRecipes(prev => prev?.map(...) || null)                              *)
setRecipesFinal(prev, final) ==
    IF prev = NULL THEN NULL ELSE Some(replaceById(prev[1], final))

(* What follows the loop: both state updates and the advisory; the call   *)
(* then returns and is no longer among the calls in progress.             *)
Settle(id, l) ==
    /\ recipes' = setRecipesFinal(recipes, finalRecipeState(l))
    /\ popularRecipes' = replaceById(popularRecipes, finalRecipeState(l))
    /\ error' = IF ~l.isValid THEN ImageTroubleMsg ELSE error
    /\ loops' = [i \in DOMAIN loops \ {id} |-> loops[i]]

(* The loop left after its first pass, whatever the pass gave. *)
EndOfAttempt_noRetry(id, l) == Settle(id, l)
(* The end of one pass through the loop body: go round again or leave.    *)
EndOfAttempt(id, l) ==
    IF whileCondition(l)
    THEN /\ loops' = [loops EXCEPT ![id] = startAttempt(l)]
         /\ UNCHANGED <<recipes, popularRecipes, error>>
    ELSE Settle(id, l)

(* generateRecipeImage returns an image: validateRecipeImage is called.   *)
GenerateImageReturns(id) ==
    /\ id \in DOMAIN loops
    /\ loops[id].pc = "gen"
    /\ loops' = [loops EXCEPT ![id] =
                    [@ EXCEPT !.generated = generatedBase64(id, loops[id].attempts),
                              !.genLog = Append(@, "ok"),
                              !.valCalls = @ + 1,
                              !.pc = "val"]]
    /\ UNCHANGED <<image, recipes, isLoading, error, savedRecipes, popularRecipes,
                   selectedCuisines, uuid, popular, req>>
    /\ UNCHANGED pageVars

(* generateRecipeImage raises: the catch block, then the loop condition.  *)
GenerateImageRaises(id) ==
    /\ id \in DOMAIN loops
    /\ loops[id].pc = "gen"
    /\ EndOfAttempt(id, [loops[id] EXCEPT !.genLog = Append(@, "raise"),
                                          !.isValid = FALSE])
    /\ UNCHANGED <<image, isLoading, savedRecipes,
                   selectedCuisines, uuid, popular, req>>
    /\ UNCHANGED pageVars

(* The prompt rewritten after every rejected image, the last included. *)
afterValidation_refinesAlways(l, b) ==
    LET v == [l EXCEPT !.isValid = b, !.valLog = Append(@, b)]
    IN  IF b THEN [v EXCEPT !.imageUrl = l.generated]
        ELSE [v EXCEPT !.currentRecipe.imagePrompt = refinedPrompt(l.currentRecipe)]
(* The body of the loop after validateRecipeImage answered b.             *)
afterValidation(l, b) ==
    LET v == [l EXCEPT !.isValid = b, !.valLog = Append(@, b)]
    IN  IF b THEN [v EXCEPT !.imageUrl = l.generated]
        ELSE IF v.attempts < MAX_ATTEMPTS
             THEN [v EXCEPT !.currentRecipe.imagePrompt = refinedPrompt(l.currentRecipe)]
             ELSE v

(* validateRecipeImage answers (false also on its own failures).          *)
ValidateImageReturns(id, b) ==
    /\ id \in DOMAIN loops
    /\ loops[id].pc = "val"
    /\ EndOfAttempt(id, afterValidation(loops[id], b))
    /\ UNCHANGED <<image, isLoading, savedRecipes,
                   selectedCuisines, uuid, popular, req>>
    /\ UNCHANGED pageVars

(* batch.forEach(recipe => generateAndSetImageForRecipe(recipe))          *)
dispatch(batch) ==
    [i \in DOMAIN loops \cup {batch[k].id : k \in 1..Len(batch)} |->
        IF i \in DOMAIN loops THEN loops[i]
        ELSE generateAndSetImageForRecipe(
                CHOOSE r \in Range(batch) : r.id = i)]

(* The model stays finite: every recipe takes two identifiers (one in the *)
(* gateway, one in App) and one image loop, and MaxLoops loops are run.   *)
Fits(raw) == (uuid \div 2) + Min(SliceLimit, Len(raw)) <= MaxLoops

(* ----------------------------- fetchPopular ---------------------------- *)
(* getPopularRecipes answers a list: gallery set, image loops dispatched.  *)
PopularAnswered(raw) ==
    /\ popular = "fetch"
    /\ LET popularTextOnly == parseAndPrepareRecipes(raw, uuid)
           n == Len(popularTextOnly)
           popularRecipesWithId == recipesWithPlaceholders(popularTextOnly, uuid + n)
       IN  /\ popularRecipes' = popularRecipesWithId
           /\ loops' = dispatch(popularRecipesWithId)
           /\ uuid' = uuid + 2 * n
    /\ popular' = "done"
    /\ UNCHANGED <<image, recipes, isLoading, error, savedRecipes,
                   selectedCuisines, req>>
    /\ UNCHANGED pageVars

PopularReturns(raw) ==
    /\ Fits(raw)
    /\ PopularAnswered(raw)

(* getPopularRecipes raises (transport, or not a list): console only.     *)
PopularRaises ==
    /\ popular = "fetch"
    /\ popular' = "done"
    /\ UNCHANGED <<image, recipes, isLoading, error, savedRecipes, popularRecipes,
                   selectedCuisines, uuid, req, loops>>
    /\ UNCHANGED pageVars

(* ------------------------- what the page offers ------------------------ *)
ShowsUploader == ~isLoading /\ recipes = NULL
ShowsFindRecipes == ShowsUploader /\ image # 0
ShowsGallery == ShowsUploader /\ image = 0 /\ Len(popularRecipes) > 0
ShowsRecipes == ~isLoading /\ recipes # NULL

(* The cards on the page, each with its save and share buttons.           *)
Cards ==
    IF ShowsRecipes THEN Range(recipes[1])
    ELSE IF ShowsGallery THEN Range(popularRecipes)
    ELSE {}

(* ------------------------------ handlers ------------------------------- *)
HandleImageSelect(img) ==
    /\ ShowsUploader
    /\ image' = img
    /\ recipes' = NULL
    /\ error' = NoError
    /\ UNCHANGED <<isLoading, savedRecipes, popularRecipes,
                   selectedCuisines, uuid, popular, req, loops>>
    /\ UNCHANGED pageVars

HandleCuisineToggle(cuisine) ==
    /\ ShowsFindRecipes
    /\ selectedCuisines' =
          IF cuisine \in Range(selectedCuisines)
          THEN SeqFilter(LAMBDA c : c # cuisine, selectedCuisines)
          ELSE Append(selectedCuisines, cuisine)
    /\ UNCHANGED <<image, recipes, isLoading, error, savedRecipes, popularRecipes,
                   uuid, popular, req, loops>>
    /\ UNCHANGED pageVars

(* The classification skipped for every request. *)
skipsClassification_always(exclude) == Len(exclude) >= 0
(* exclude.length > 0 ? true : await isFoodImage(...)                     *)
skipsClassification(exclude) == Len(exclude) > 0

(* The test for the picture left out. *)
noImage_never(img) == FALSE
(* !image                                                                 *)
noImage(img) == img = 0

(* handleGetRecipes(exclude, cuisines) up to its first await, or to its   *)
(* early return.                                                          *)
handleGetRecipes(exclude, cuisines) ==
    /\ IF noImage(image)
       THEN /\ error' = SelectImageMsg
            /\ UNCHANGED <<recipes, isLoading, req>>
       ELSE /\ isLoading' = TRUE
            /\ error' = NoError
            /\ recipes' = NULL
            /\ LET fresh == [idleReq EXCEPT !.kind = "fresh", !.exclude = exclude,
                                            !.cuisines = cuisines]
               IN  req' = IF skipsClassification(fresh.exclude)
                          THEN [fresh EXCEPT !.isFood = "true", !.pc = "fetchImage",
                                             !.imageFetchCalls = 1]
                          ELSE [fresh EXCEPT !.pc = "classify", !.classifyCalls = 1]
    /\ UNCHANGED <<image, savedRecipes, popularRecipes,
                   selectedCuisines, uuid, popular, loops>>
    /\ UNCHANGED pageVars

(* The Find Recipes button: handleGetRecipes([], selectedCuisines), the   *)
(* one call the page makes.                                               *)
HandleGetRecipes ==
    /\ ShowsFindRecipes
    /\ handleGetRecipes(<<>>, selectedCuisines)

(* The same call made with no picture selected.  The page does not offer  *)
(* it (the button is rendered with the picture); it is the handler called *)
(* as a function, in any state of the session.                            *)
HandleGetRecipesNoImage ==
    /\ image = 0
    /\ handleGetRecipes(<<>>, selectedCuisines)

(* What the classification call meets: the model's text holds "yes", it  *)
(* does not, or the call fails (transport error, no text in the answer).  *)
ClassifyAnswers == {"yes", "no", "error"}

(* The catch block answering true. *)
isFoodImage_failOpen(answer) == answer # "no"
(* isFoodImage: text.trim().toLowerCase().includes('yes'), and false from *)
(* the catch block.                                                       *)
isFoodImage(answer) == answer = "yes"

(* The rest of handleGetRecipes up to its second await; classifyLog keeps *)
(* what the gateway call met.                                             *)
IsFoodImageReturns(answer) ==
    /\ req.pc = "classify"
    /\ IF isFoodImage(answer)
       THEN /\ req' = [req EXCEPT !.isFood = "true", !.pc = "fetchImage",
                                  !.imageFetchCalls = @ + 1,
                                  !.classifyLog = Append(@, answer)]
            /\ UNCHANGED error
       ELSE /\ error' = NotFoodMsg
            /\ req' = [req EXCEPT !.isFood = "false", !.pc = "fetchGeneric",
                                  !.genericFetchCalls = @ + 1,
                                  !.classifyLog = Append(@, answer)]
    /\ UNCHANGED <<image, recipes, isLoading, savedRecipes, popularRecipes,
                   selectedCuisines, uuid, popular, loops>>
    /\ UNCHANGED pageVars

(* A call that has come back: the arguments it passed are gone, what is   *)
(* kept is which calls it made and what it decided.                       *)
returned(r) == [r EXCEPT !.exclude = <<>>, !.cuisines = <<>>]

(* The advisory once the text of a round is on the page.                  *)
errorAfterText(r, e) ==
    IF r.kind = "more" /\ r.isGenericFallback THEN NotFoodMsg ELSE e

(* The loading state kept until the images are in. *)
loadingAfterText_kept == TRUE
(* setIsLoading(false) ahead of setRecipes and of the image loops         *)
loadingAfterText == FALSE

(* getRecipesFromImage / getGenericRecipes answers a list.                *)
TextAnswered(raw) ==
    /\ req.pc \in {"fetchImage", "fetchGeneric"}
    /\ LET recipesData == parseAndPrepareRecipes(raw, uuid)
           n == Len(recipesData)
           batch == recipesWithPlaceholders(recipesData, uuid + n)
       IN  /\ isLoading' = loadingAfterText
           /\ recipes' = Some(batch)
           /\ error' = errorAfterText(req, error)
           /\ loops' = dispatch(batch)
           /\ uuid' = uuid + 2 * n
           /\ req' = [returned(req) EXCEPT !.pc = "done",
                                            !.batch = SeqMap(LAMBDA r : r.id, batch),
                                            !.rawLen = Len(raw)]
    /\ UNCHANGED <<image, savedRecipes, popularRecipes,
                   selectedCuisines, popular>>
    /\ UNCHANGED pageVars

TextReturns(raw) ==
    /\ Fits(raw)
    /\ TextAnswered(raw)

(* The catch block without its setIsLoading(false). *)
loadingAfterFailure_kept == TRUE
(* setIsLoading(false) in the catch block                                 *)
loadingAfterFailure == FALSE

(* The text fetch raises (transport, JSON.parse, or not a list): the      *)
(* catch block, with err.message as the advisory.                         *)
TextRaises(msg) ==
    /\ req.pc \in {"fetchImage", "fetchGeneric"}
    /\ error' = msg
    /\ isLoading' = loadingAfterFailure
    /\ req' = [returned(req) EXCEPT !.pc = "failed"]
    /\ UNCHANGED <<image, recipes, savedRecipes, popularRecipes,
                   selectedCuisines, uuid, popular, loops>>
    /\ UNCHANGED pageVars

(* The names read after setRecipes(null). *)
existingRecipeNames_afterClear(rs) == <<>>
(* recipes ? recipes.map(r => r.recipeName) : []                          *)
existingRecipeNames(rs) ==
    IF rs = NULL THEN <<>> ELSE SeqMap(LAMBDA r : r.recipeName, rs[1])

(* handleLoadMoreRecipes up to its first await, or to its bare return.    *)
HandleLoadMoreRecipes ==
    /\ ShowsRecipes
    /\ LET isGenericFallback == errorIncludesNotFood(error)
           more == [idleReq EXCEPT !.kind = "more",
                                   !.isGenericFallback = isGenericFallback,
                                   !.exclude = existingRecipeNames(recipes)]
       IN  req' = IF isGenericFallback
                  THEN [more EXCEPT !.pc = "fetchGeneric", !.genericFetchCalls = 1]
                  ELSE IF image = 0
                       THEN [more EXCEPT !.pc = "returned"]
                       ELSE [more EXCEPT !.pc = "fetchImage", !.imageFetchCalls = 1]
    /\ isLoading' = TRUE
    /\ error' = NoError
    /\ recipes' = NULL
    /\ UNCHANGED <<image, savedRecipes, popularRecipes,
                   selectedCuisines, uuid, popular, loops>>
    /\ UNCHANGED pageVars

HandleReset ==
    /\ ShowsRecipes
    /\ image' = 0
    /\ recipes' = NULL
    /\ error' = NoError
    /\ isLoading' = FALSE
    /\ selectedCuisines' = <<>>
    /\ UNCHANGED <<savedRecipes, popularRecipes, uuid,
                   popular, req, loops>>
    /\ UNCHANGED pageVars

(* The recipe appended whether or not it is saved. *)
saveToggle_alwaysAdds(prev, recipeToToggle) == Append(prev, recipeToToggle)
(* setSavedRecipes(prev => isSaved ? prev.filter(...) : [...prev, r])     *)
saveToggle(prev, recipeToToggle) ==
    IF \E i \in 1..Len(prev) : prev[i].id = recipeToToggle.id
    THEN SeqFilter(LAMBDA r : r.id # recipeToToggle.id, prev)
    ELSE Append(prev, recipeToToggle)

(* The heart button of a card on the page. *)
handleSaveToggle(recipeToToggle) ==
    /\ recipeToToggle \in Cards
    /\ savedRecipes' = saveToggle(savedRecipes, recipeToToggle)
    /\ UNCHANGED <<image, recipes, isLoading, error, popularRecipes,
                   selectedCuisines, uuid, popular, req, loops>>
    /\ UNCHANGED pageVars

HandleSaveToggle(recipeToToggle) ==
    /\ Len(saveToggle(savedRecipes, recipeToToggle)) <= MaxSaved
    /\ handleSaveToggle(recipeToToggle)

(* The saved list opens from the header button, which is on the page in   *)
(* every state; its open flag is read by the list alone and is left out.  *)
HandleRemoveSavedRecipe(recipeId) ==
    /\ \E i \in 1..Len(savedRecipes) : savedRecipes[i].id = recipeId
    /\ savedRecipes' = SeqFilter(LAMBDA r : r.id # recipeId, savedRecipes)
    /\ UNCHANGED <<image, recipes, isLoading, error, popularRecipes,
                   selectedCuisines, uuid, popular, req, loops>>
    /\ UNCHANGED pageVars

HandleViewSavedRecipe(recipe) ==
    /\ recipe \in Range(savedRecipes)
    /\ recipes' = Some(<<recipe>>)
    /\ UNCHANGED <<image, isLoading, error, savedRecipes, popularRecipes,
                   selectedCuisines, uuid, popular, req, loops>>
    /\ UNCHANGED pageVars

(* --------------------------- specifications ---------------------------- *)
LoopStep ==
    \E id \in DOMAIN loops :
        \/ GenerateImageReturns(id)
        \/ GenerateImageRaises(id)
        \/ \E b \in BOOLEAN : ValidateImageReturns(id, b)

(* The rounds of the session, the model answering with names out of N.    *)
FetchStep(N) ==
    \/ \E raw \in RawListsOver(N) : PopularReturns(raw)
    \/ PopularRaises
    \/ \E img \in 1..MaxImage : HandleImageSelect(img)
    \/ HandleGetRecipes
    \/ \E answer \in ClassifyAnswers : IsFoodImageReturns(answer)
    \/ \E raw \in RawListsOver(N) : TextReturns(raw)
    \/ \E msg \in FetchErrors : TextRaises(msg)
    \/ HandleLoadMoreRecipes
    \/ HandleReset

Next ==
    \/ LoopStep
    \/ FetchStep(Names)
    \/ \E c \in availableCuisines : HandleCuisineToggle(c)
    \/ \E r \in Cards : HandleSaveToggle(r)
    \/ \E r \in Range(savedRecipes) : HandleRemoveSavedRecipe(r.id)
    \/ \E r \in Range(savedRecipes) : HandleViewSavedRecipe(r)

Spec == Init /\ [][Next]_vars

(* The rounds alone (no saved list, no cuisine choice), the model         *)
(* answering with more than one recipe name.                              *)
MoreNames == 1..MaxMoreName

NextMore ==
    \/ LoopStep
    \/ FetchStep(MoreNames)

SpecMore == Init /\ [][NextMore]_vars

(* The session with handleGetRecipes also called when no picture is       *)
(* selected.                                                              *)
NextDirect ==
    \/ Next
    \/ HandleGetRecipesNoImage

SpecDirect == Init /\ [][NextDirect]_vars

(* The session with every gateway call of a request coming back: an await *)
(* of isFoodImage, getRecipesFromImage or getGenericRecipes is resumed,   *)
(* with an answer or with a raise.  Nothing is asked of the user.         *)
IsFoodImageSettles == \E answer \in ClassifyAnswers : IsFoodImageReturns(answer)

TextFetchSettles ==
    \/ \E raw \in RawListsOver(Names) : TextReturns(raw)
    \/ \E msg \in FetchErrors : TextRaises(msg)

(* The same of the image loops: the generateRecipeImage or the          *)
(* validateRecipeImage call a loop waits for comes back.                  *)
LoopIds == 1..(2 * MaxLoops)

ImageCallSettles(id) ==
    \/ GenerateImageReturns(id)
    \/ GenerateImageRaises(id)
    \/ \E b \in BOOLEAN : ValidateImageReturns(id, b)

SpecLive ==
    /\ Init
    /\ [][Next]_vars
    /\ WF_vars(IsFoodImageSettles)
    /\ WF_vars(TextFetchSettles)
    /\ \A id \in LoopIds : WF_vars(ImageCallSettles(id))

(* ---- the text rounds alone, with raw lists longer than the limit ------- *)
LongRawLists ==
    UNION {[1..k -> {recipeSchema(n) : n \in 1..MaxFetchName}] : k \in 0..MaxLongRaw}

FitsFetch(raw) == uuid + 2 * Min(SliceLimit, Len(raw)) <= MaxFetchIds

(* The image loops are dispatched and left waiting for their first        *)
(* generateRecipeImage call.                                              *)
NextFetch ==
    \/ \E raw \in LongRawLists : FitsFetch(raw) /\ PopularAnswered(raw)
    \/ PopularRaises
    \/ \E img \in 1..MaxImage : HandleImageSelect(img)
    \/ HandleGetRecipes
    \/ \E answer \in ClassifyAnswers : IsFoodImageReturns(answer)
    \/ \E raw \in LongRawLists : FitsFetch(raw) /\ TextAnswered(raw)
    \/ \E msg \in FetchErrors : TextRaises(msg)
    \/ HandleLoadMoreRecipes
    \/ HandleReset

SpecFetch == Init /\ [][NextFetch]_vars

(* ---- RecipeCard: the instruction steps and their timer buttons --------- *)
(* An instruction is a sequence of characters; a unit word is written as  *)
(* one character of the sequence ("minutes" is "minute" then "s").        *)
Digits == {"0", "1", "2", "3", "4", "5", "6", "7", "8", "9"}
DigitValue(d) ==
    CASE d = "0" -> 0 [] d = "1" -> 1 [] d = "2" -> 2 [] d = "3" -> 3
      [] d = "4" -> 4 [] d = "5" -> 5 [] d = "6" -> 6 [] d = "7" -> 7
      [] d = "8" -> 8 [] d = "9" -> 9

toLowerCase(c) ==
    CASE c = "HOUR" -> "hour" [] c = "MINUTE" -> "minute"
      [] c = "T" -> "t" [] c = "O" -> "o" [] OTHER -> c

isDigit(c) == c \in Digits
isSpace(c) == c = " "
(* (minute|minutes|hour|hours) with the i flag                            *)
isUnit(c) == toLowerCase(c) \in {"minute", "hour"}

(* The position after the longest run of characters of the class that     *)
(* begins at position p.                                                  *)
RECURSIVE runEnd(_, _, _)
runEnd(isClass(_), s, p) ==
    IF p <= Len(s) /\ isClass(s[p]) THEN runEnd(isClass, s, p + 1) ELSE p

(* parseInt(match[2], 10)                                                 *)
RECURSIVE parseInt(_)
parseInt(digits) ==
    IF digits = <<>> THEN 0
    ELSE 10 * parseInt(SubSeq(digits, 1, Len(digits) - 1))
            + DigitValue(digits[Len(digits)])

(* \d+\s*unit at position p: the groups of the match, or NULL.            *)
numberAndUnitAt(s, p, group1) ==
    LET e == runEnd(isDigit, s, p)
        u == runEnd(isSpace, s, e)
    IN  IF e > p /\ u <= Len(s) /\ isUnit(s[u])
        THEN Some([index |-> 0, g1 |-> group1, g2 |-> SubSeq(s, p, e - 1), g3 |-> s[u]])
        ELSE NULL

(* The regular expression tried at position p: first with its optional    *)
(* group (\d+)\s*to\s*, then without it.                                  *)
timeRegexAt(s, p) ==
    LET e == runEnd(isDigit, s, p)
        t == runEnd(isSpace, s, e)
        withTo ==
            IF e > p /\ t + 1 <= Len(s)
                     /\ toLowerCase(s[t]) = "t" /\ toLowerCase(s[t + 1]) = "o"
            THEN numberAndUnitAt(s, runEnd(isSpace, s, t + 2), SubSeq(s, p, e - 1))
            ELSE NULL
    IN  IF withTo # NULL THEN withTo ELSE numberAndUnitAt(s, p, <<>>)

(* instruction.match(timeRegex): the match at the leftmost position that  *)
(* has one, or NULL.                                                      *)
RECURSIVE matchFrom(_, _)
matchFrom(s, p) ==
    IF p > Len(s) THEN NULL
    ELSE IF timeRegexAt(s, p) # NULL
         THEN Some([timeRegexAt(s, p)[1] EXCEPT !.index = p])
         ELSE matchFrom(s, p + 1)

match(instruction) == matchFrom(instruction, 1)

secondsOf(value, unit) ==
    IF toLowerCase(unit) \in {"hour", "hours"} THEN value * 3600 ELSE value * 60

(* The duration taken from the first number of a range. *)
parseInstructionForTime_firstNumber(instruction) ==
    LET m == match(instruction)
    IN  IF m # NULL
        THEN [text |-> instruction,
              timeInSeconds |->
                 Some(secondsOf(parseInt(IF m[1].g1 # <<>> THEN m[1].g1 ELSE m[1].g2),
                                m[1].g3))]
        ELSE [text |-> instruction, timeInSeconds |-> NULL]
parseInstructionForTime(instruction) ==
    LET m == match(instruction)
    IN  IF m # NULL
        THEN [text |-> instruction,
              timeInSeconds |-> Some(secondsOf(parseInt(m[1].g2), m[1].g3))]
        ELSE [text |-> instruction, timeInSeconds |-> NULL]

(* The characters the instruction steps of SpecCard are written with.     *)
InstrChars == {"1", "2", " ", "t", "o", "minute", "HOUR"}
Instructions == UNION {[1..k -> InstrChars] : k \in 0..MaxInstrLen}

(* A recipe on the page with one instruction step, its image accepted.    *)
CardRecipe(step) ==
    [id |-> 2, recipeName |-> 1, imagePrompt |-> <<"model", 1>>,
     imageUrl |-> generatedBase64(2, 1), imageError |-> "false",
     instructions |-> <<step>>]

InitCard ==
    /\ image = 1
    /\ \E step \in Instructions : recipes = Some(<<CardRecipe(step)>>)
    /\ isLoading = FALSE
    /\ error = NoError
    /\ savedRecipes = <<>>
    /\ popularRecipes = <<>>
    /\ selectedCuisines = <<>>
    /\ uuid = 2
    /\ popular = "done"
    /\ req = [idleReq EXCEPT !.kind = "fresh", !.pc = "done", !.isFood = "true",
                             !.batch = <<2>>, !.classifyCalls = 1, !.rawLen = 1,
                             !.imageFetchCalls = 1, !.classifyLog = <<"yes">>]
    /\ loops = [i \in {} |-> 0]
    /\ timerConfig = NULL
    /\ timerWidget = NULL
    /\ clipboard = NULL
    /\ location = NULL

(* ---- TimerWidget: the one timer of the page --------------------------- *)
(* The widget after App has rendered it with new props.  Not mounted      *)
(* before: useState(duration) and useState(true).  Mounted: the second    *)
(* effect runs when duration or description differs from the props of   *)
(* the render before, and sets the time left and the active flag; with    *)
(* the same props it does not run and the state is kept.                  *)
renderTimerWidget(prevConfig, widget, props) ==
    IF prevConfig = NULL
    THEN Some([timeLeft |-> props.duration, isActive |-> TRUE])
    ELSE IF prevConfig[1].duration # props.duration
              \/ prevConfig[1].description # props.description
         THEN Some([timeLeft |-> props.duration, isActive |-> TRUE])
         ELSE widget

(* handleStartTimer: setTimerConfig({ duration, description }), and the   *)
(* render of the TimerWidget that follows.                                *)
handleStartTimer(duration, description) ==
    LET props == [duration |-> duration, description |-> description]
    IN  /\ timerConfig' = Some(props)
        /\ timerWidget' = renderTimerWidget(timerConfig, timerWidget, props)
        /\ UNCHANGED <<image, recipes, isLoading, error, savedRecipes,
                       popularRecipes, selectedCuisines, uuid, popular, req,
                       loops, clipboard, location>>

(* The timer button of step i of a card, rendered when timeInSeconds is   *)
(* truthy: onStartTimer(timeInSeconds, text), which is handleStartTimer.  *)
HandleStartTimer(recipe, i) ==
    LET parsed == parseInstructionForTime(recipe.instructions[i])
    IN  /\ recipe \in Cards
        /\ parsed.timeInSeconds # NULL
        /\ parsed.timeInSeconds[1] # 0
        /\ handleStartTimer(parsed.timeInSeconds[1], parsed.text)

(* onClose of the TimerWidget: setTimerConfig(null); the widget is        *)
(* unmounted and its state is gone.                                       *)
HandleCloseTimer ==
    /\ timerConfig # NULL
    /\ timerConfig' = NULL
    /\ timerWidget' = NULL
    /\ UNCHANGED <<image, recipes, isLoading, error, savedRecipes,
                   popularRecipes, selectedCuisines, uuid, popular, req,
                   loops, clipboard, location>>

NextCard ==
    \/ \E r \in Cards : \E i \in 1..Len(r.instructions) : HandleStartTimer(r, i)
    \/ HandleCloseTimer

SpecCard == InitCard /\ [][NextCard]_vars

(* ---- the timer running: a card whose steps carry durations ------------- *)
(* One second passes for a running timer: the interval of the first       *)
(* effect, and the effect's other branch when the time left reaches 0.    *)
TimerTick ==
    /\ timerWidget # NULL
    /\ timerWidget[1].isActive
    /\ timerWidget[1].timeLeft > 0
    /\ LET left == timerWidget[1].timeLeft - 1
       IN  timerWidget' = Some([timeLeft |-> left,
                                isActive |-> IF left = 0 THEN FALSE ELSE TRUE])
    /\ UNCHANGED <<image, recipes, isLoading, error, savedRecipes,
                   popularRecipes, selectedCuisines, uuid, popular, req,
                   loops, timerConfig, clipboard, location>>

(* The pause / play button: setIsActive(!isActive), disabled at 0.        *)
HandleToggleTimer ==
    /\ timerWidget # NULL
    /\ timerWidget[1].timeLeft # 0
    /\ timerWidget' = Some([timerWidget[1] EXCEPT !.isActive = ~@])
    /\ UNCHANGED <<image, recipes, isLoading, error, savedRecipes,
                   popularRecipes, selectedCuisines, uuid, popular, req,
                   loops, timerConfig, clipboard, location>>

(* The reset button of the widget: handleReset of TimerWidget.            *)
HandleResetTimer ==
    /\ timerWidget # NULL
    /\ timerWidget' = Some([timeLeft |-> timerConfig[1].duration, isActive |-> TRUE])
    /\ UNCHANGED <<image, recipes, isLoading, error, savedRecipes,
                   popularRecipes, selectedCuisines, uuid, popular, req,
                   loops, timerConfig, clipboard, location>>

(* The steps of the card of SpecTimer: one minute, two minutes, and one   *)
(* minute written another way.                                            *)
TimerSteps == <<<<"1", "minute">>, <<"2", "minute">>, <<"1", " ", "minute">>>>

TimerRecipe == [CardRecipe(<<>>) EXCEPT !.instructions = TimerSteps]

InitTimer ==
    /\ image = 1
    /\ recipes = Some(<<TimerRecipe>>)
    /\ isLoading = FALSE
    /\ error = NoError
    /\ savedRecipes = <<>>
    /\ popularRecipes = <<>>
    /\ selectedCuisines = <<>>
    /\ uuid = 2
    /\ popular = "done"
    /\ req = [idleReq EXCEPT !.kind = "fresh", !.pc = "done", !.isFood = "true",
                             !.batch = <<2>>, !.classifyCalls = 1, !.rawLen = 1,
                             !.imageFetchCalls = 1, !.classifyLog = <<"yes">>]
    /\ loops = [i \in {} |-> 0]
    /\ timerConfig = NULL
    /\ timerWidget = NULL
    /\ clipboard = NULL
    /\ location = NULL

NextTimer ==
    \/ \E r \in Cards : \E i \in 1..Len(r.instructions) : HandleStartTimer(r, i)
    \/ HandleCloseTimer
    \/ TimerTick
    \/ HandleToggleTimer
    \/ HandleResetTimer

SpecTimer == InitTimer /\ [][NextTimer]_vars

(* ---- the shareable link: JSON text, base64, the query parameter -------- *)
(* A string is the sequence of its UTF-16 code units; base64 text is the  *)
(* sequence of its characters' values 0..63, with Pad for "=" and Blank   *)
(* for a space.  A throw is NULL, a result x is Some(x).                  *)
Pad == 64
Blank == 65
Plus == 62

(* {"recipeName":"  ","id":"  "}  as JSON.stringify writes them           *)
JsonOpen == <<123, 34, 114, 101, 99, 105, 112, 101, 78, 97, 109, 101, 34, 58, 34>>
JsonMiddle == <<34, 44, 34, 105, 100, 34, 58, 34>>
JsonClose == <<34, 125>>
Quote == 34

idText(n) == IF n < 10 THEN <<48 + n>> ELSE <<48 + (n \div 10), 48 + (n % 10)>>

(* JSON.stringify(recipe), of the fields the link is read for             *)
JSONstringify(recipe) ==
    JsonOpen \o recipe.recipeName \o JsonMiddle \o idText(recipe.id) \o JsonClose

(* btoa: InvalidCharacterError for a code unit above 255, else base64     *)
btoa(str) ==
    IF \E i \in 1..Len(str) : str[i] > 255 THEN NULL
    ELSE LET n == Len(str)
             byte(i) == IF i <= n THEN str[i] ELSE 0
             char(j) ==
                LET g == 3 * ((j - 1) \div 4)
                    k == (j - 1) % 4
                IN  CASE k = 0 -> byte(g + 1) \div 4
                      [] k = 1 -> (byte(g + 1) % 4) * 16 + (byte(g + 2) \div 16)
                      [] k = 2 -> IF g + 2 > n THEN Pad
                                  ELSE (byte(g + 2) % 16) * 4 + (byte(g + 3) \div 64)
                      [] k = 3 -> IF g + 3 > n THEN Pad ELSE byte(g + 3) % 64
         IN  Some([j \in 1..(4 * ((n + 2) \div 3)) |-> char(j)])

(* `${origin}${pathname}?recipe=${encodedRecipe}`: the link is known by   *)
(* its query string, which is the base64 text as it is.                   *)
generateShareableLink(recipe) == btoa(JSONstringify(recipe))

(* new URLSearchParams(search).get('recipe'): a "+" of the query string   *)
(* is read as a space.                                                    *)
urlParamsGet(search) ==
    [j \in 1..Len(search) |-> IF search[j] = Plus THEN Blank ELSE search[j]]

(* atob: spaces removed, then the padding of a text whose length is a     *)
(* multiple of 4; InvalidCharacterError for a length of 1 modulo 4 or a   *)
(* character that is left and is not one of the 64.                       *)
atob(data) ==
    LET noSpace == SelectSeq(data, LAMBDA c : c # Blank)
        n == Len(noSpace)
        pads == IF n % 4 = 0 /\ n > 0 /\ noSpace[n] = Pad
                THEN (IF noSpace[n - 1] = Pad THEN 2 ELSE 1) ELSE 0
        text == SubSeq(noSpace, 1, n - pads)
        m == Len(text)
        at(j) == IF j <= m THEN text[j] ELSE 0
        byte(i) ==
            LET g == 4 * ((i - 1) \div 3)
                k == (i - 1) % 3
            IN  CASE k = 0 -> at(g + 1) * 4 + (at(g + 2) \div 16)
                  [] k = 1 -> (at(g + 2) % 16) * 16 + (at(g + 3) \div 4)
                  [] k = 2 -> (at(g + 3) % 4) * 64 + at(g + 4)
    IN  IF m % 4 = 1 \/ \E j \in 1..m : text[j] = Pad THEN NULL
        ELSE Some([i \in 1..((m * 6) \div 8) |-> byte(i)])

(* JSON.parse of a text JSON.stringify wrote for a recipe; SyntaxError    *)
(* (NULL) for any other text.                                             *)
JSONparse(text) ==
    LET n == Len(text)
        o == Len(JsonOpen)
        nameEnds == {q \in (o + 1)..n : text[q] = Quote}
        q == IF nameEnds = {} THEN 0
             ELSE CHOOSE x \in nameEnds : \A y \in nameEnds : x <= y
        idFrom == q + Len(JsonMiddle)
        idTo == n - Len(JsonClose)
        isDigits == \A j \in idFrom..idTo : text[j] \in 48..57
        RECURSIVE number(_)
        number(j) == IF j < idFrom THEN 0 ELSE 10 * number(j - 1) + (text[j] - 48)
    IN  IF /\ q > 0 /\ idFrom <= idTo /\ idTo - idFrom < 2
           /\ SubSeq(text, 1, o) = JsonOpen
           /\ SubSeq(text, q, idFrom - 1) = JsonMiddle
           /\ SubSeq(text, idTo + 1, n) = JsonClose
           /\ isDigits
        THEN Some([id |-> number(idTo), recipeName |-> SubSeq(text, o + 1, q - 1)])
        ELSE NULL

(* JSON.parse(atob(recipeData)) of the shared recipe effect               *)
decodeRecipe(recipeData) ==
    IF atob(recipeData) = NULL THEN NULL ELSE JSONparse(atob(recipeData)[1])

(* The code units recipe names are written with in SpecShare: a, s, e     *)
(* acute (233) and the right single quotation mark (8217).                *)
ShareNameChars == {97, 115, 233, 8217}
ShareNames == UNION {[1..k -> ShareNameChars] : k \in 1..MaxNameLen}

(* A recipe on the page under the name, its image accepted.               *)
ShareRecipe(name) ==
    [id |-> 2, recipeName |-> name, imagePrompt |-> <<"model", name>>,
     imageUrl |-> generatedBase64(2, 1), imageError |-> "false"]

InitShare ==
    /\ image = 1
    /\ \E name \in ShareNames : recipes = Some(<<ShareRecipe(name)>>)
    /\ isLoading = FALSE
    /\ error = NoError
    /\ savedRecipes = <<>>
    /\ popularRecipes = <<>>
    /\ selectedCuisines = <<>>
    /\ uuid = 2
    /\ popular = "done"
    /\ req = [idleReq EXCEPT !.kind = "fresh", !.pc = "done", !.isFood = "true",
                             !.batch = <<2>>, !.classifyCalls = 1, !.rawLen = 1,
                             !.imageFetchCalls = 1, !.classifyLog = <<"yes">>]
    /\ loops = [i \in {} |-> 0]
    /\ timerConfig = NULL
    /\ timerWidget = NULL
    /\ clipboard = NULL
    /\ location = NULL

(* handleShare(recipe, 'copy') where navigator.share is absent: the link  *)
(* is written to the clipboard; when generateShareableLink throws, the    *)
(* call ends there and nothing is written.                                *)
HandleShare(recipe) ==
    LET url == generateShareableLink(recipe)
    IN  /\ recipe \in Cards
        /\ clipboard' = IF url = NULL THEN clipboard ELSE url
        /\ UNCHANGED <<image, recipes, isLoading, error, savedRecipes,
                       popularRecipes, selectedCuisines, uuid, popular, req,
                       loops, timerConfig, timerWidget, location>>

(* The link of the clipboard is opened: the application is constructed at *)
(* that address and its shared recipe effect runs.                        *)
OpenSharedLink ==
    /\ clipboard # NULL
    /\ LET recipeData == urlParamsGet(clipboard[1])
           decodedRecipe == decodeRecipe(recipeData)
           shows == decodedRecipe # NULL /\ decodedRecipe[1].recipeName # <<>>
       IN  /\ recipes' = IF shows THEN Some(<<decodedRecipe[1]>>) ELSE NULL
           /\ error' = IF decodedRecipe = NULL THEN LinkErrMsg ELSE NoError
           /\ location' = IF shows THEN NULL ELSE Some(clipboard[1])
    /\ image' = 0
    /\ isLoading' = FALSE
    /\ savedRecipes' = <<>>
    /\ popularRecipes' = <<>>
    /\ selectedCuisines' = <<>>
    /\ popular' = "fetch"
    /\ req' = idleReq
    /\ loops' = [i \in {} |-> 0]
    /\ timerConfig' = NULL
    /\ timerWidget' = NULL
    /\ UNCHANGED <<uuid, clipboard>>

NextShare ==
    \/ \E r \in Cards : HandleShare(r)
    \/ OpenSharedLink

SpecShare == InitShare /\ [][NextShare]_vars

(* ---- the saved list alone: a settled batch on the page, any stored list ---- *)
(* A batch of three on the page, every image loop settled as accepted at  *)
(* its first attempt.                                                     *)
SettledBatch ==
    LET raw == [i \in 1..SliceLimit |-> recipeSchema(1)]
        batch == recipesWithPlaceholders(parseAndPrepareRecipes(raw, 0), SliceLimit)
    IN  [i \in 1..SliceLimit |->
            [batch[i] EXCEPT !.imageUrl = generatedBase64(batch[i].id, 1),
                             !.imageError = "false"]]

(* What localStorage holds when the application is opened: recipes saved *)
(* in earlier sessions (identifiers below 0: no identifier of this one).  *)
StoredPool ==
    {[Recipe(0 - k, recipeSchema(1)) EXCEPT !.imageUrl = generatedBase64(0 - k, 1),
                                           !.imageError = "false"] :
        k \in 1..MaxStored}

NoDuplicateIds(list) ==
    \A i, j \in 1..Len(list) : list[i].id = list[j].id => i = j

StoredLists ==
    {list \in UNION {[1..k -> StoredPool] : k \in 0..MaxStored} :
        NoDuplicateIds(list)}

InitSaved ==
    /\ image = 1
    /\ recipes = Some(SettledBatch)
    /\ isLoading = FALSE
    /\ error = NoError
    /\ savedRecipes \in StoredLists
    /\ popularRecipes = <<>>
    /\ selectedCuisines = <<>>
    /\ uuid = 2 * SliceLimit
    /\ popular = "done"
    /\ req = [idleReq EXCEPT !.kind = "fresh", !.pc = "done", !.isFood = "true",
                             !.batch = IdsOf(SettledBatch), !.classifyCalls = 1,
                             !.imageFetchCalls = 1, !.classifyLog = <<"yes">>]
    /\ loops = [i \in {} |-> 0]
    /\ timerConfig = NULL
    /\ timerWidget = NULL
    /\ clipboard = NULL
    /\ location = NULL

NextSaved ==
    \/ \E r \in Cards :
          /\ Len(savedRecipes) <= SliceLimit + MaxStored
          /\ handleSaveToggle(r)
    \/ \E r \in Range(savedRecipes) : HandleRemoveSavedRecipe(r.id)

SpecSaved == InitSaved /\ [][NextSaved]_vars

(* ------------------------------ claims --------------------------------- *)
Shown == IF recipes = NULL THEN <<>> ELSE recipes[1]
Entries == Range(Shown) \cup Range(popularRecipes)
EntriesOf(id) == {r \in Entries : r.id = id}

HasImage(r) == r.imageUrl # 0
HasFailed(r) == r.imageError = "true"
IsPending(r) == ~HasImage(r) /\ ~HasFailed(r)
Count(s, x) == Cardinality({i \in 1..Len(s) : s[i] = x})

(* A step in which the image loop of recipe id settles.                   *)
Settles(id) == id \in DOMAIN loops /\ id \notin DOMAIN loops'

(* C1: every recipe of the displayed set and of the gallery has an image  *)
(* and no failure flag, or the failure flag and no image, or neither; it  *)
(* never has both an image and the failure flag.                          *)
C1_ImageXorFailure ==
    \A r \in Entries :
        /\ ~(HasImage(r) /\ HasFailed(r))
        /\ Cardinality({c \in {"image", "failed", "pending"} :
                \/ c = "image" /\ HasImage(r) /\ ~HasFailed(r)
                \/ c = "failed" /\ HasFailed(r) /\ ~HasImage(r)
                \/ c = "pending" /\ IsPending(r)}) = 1

(* Two loops of the gallery have settled, one each way.                   *)
C1_Witness ==
    /\ \E r \in Range(popularRecipes) : HasImage(r)
    /\ \E r \in Range(popularRecipes) : HasFailed(r)

(* C2: a loop makes at most 2 generateImage calls, calls the validator    *)
(* only for an attempt whose generateImage call returned an image, always *)
(* has exactly one gateway call outstanding until it settles, and a       *)
(* settled loop never runs again.                                         *)
C2_LoopCalls ==
    /\ [](\A id \in DOMAIN loops :
            LET l == loops[id] IN
            /\ Len(l.prompts) <= 2
            /\ Len(l.prompts) = l.attempts
            /\ l.valCalls <= Count(l.genLog, "ok")
            /\ l.valCalls = Len(l.valLog) + (IF l.pc = "val" THEN 1 ELSE 0)
            /\ l.pc = "val" => Len(l.genLog) = l.attempts /\ l.genLog[l.attempts] = "ok"
            /\ (Len(l.prompts) - Len(l.genLog)) + (l.valCalls - Len(l.valLog)) = 1
            /\ id <= uuid)
    /\ [][/\ \A id \in DOMAIN loops' \ DOMAIN loops : id > uuid
          /\ Cardinality(DOMAIN loops \ DOMAIN loops') <= 1]_vars

(* A loop whose second validation is outstanding.                         *)
C2_Witness ==
    \E id \in DOMAIN loops : loops[id].attempts = 2 /\ loops[id].pc = "val"

(* C3: with generateImage always returning an image, the validator's      *)
(* answers decide the loop: true at once is 1 attempt and that image;     *)
(* false then true is 2 attempts and the second image; false twice is 2   *)
(* attempts, the failure flag and no image.                               *)
C3_ValidatorDecides ==
    [][\A id \in DOMAIN loops : \A b \in BOOLEAN :
          LET l == loops[id]
              gens == Len(l.prompts)
          IN  (ValidateImageReturns(id, b) /\ Count(l.genLog, "raise") = 0) =>
                /\ (l.valLog = <<>> /\ b) =>
                      /\ Settles(id) /\ gens = 1
                      /\ \A r \in EntriesOf(id)' :
                            r.imageUrl = generatedBase64(id, 1) /\ ~HasFailed(r)
                /\ (l.valLog = <<>> /\ ~b) =>
                      /\ ~Settles(id) /\ Len(loops'[id].prompts) = 2
                      /\ \A r \in EntriesOf(id)' : IsPending(r)
                /\ (l.valLog = <<FALSE>> /\ b) =>
                      /\ Settles(id) /\ gens = 2
                      /\ \A r \in EntriesOf(id)' :
                            r.imageUrl = generatedBase64(id, 2) /\ ~HasFailed(r)
                /\ (l.valLog = <<FALSE>> /\ ~b) =>
                      /\ Settles(id) /\ gens = 2
                      /\ \A r \in EntriesOf(id)' : HasFailed(r) /\ ~HasImage(r)
      ]_vars

(* A displayed recipe carries the image of a second attempt made with the *)
(* refined prompt: the validator said false, then true.                   *)
C3_Witness ==
    \E r \in Range(Shown) :
        r.imageUrl = generatedBase64(r.id, 2) /\ r.imagePrompt[1] = "refined"

(* What a settling loop must leave in a list: its own entry with the      *)
(* given image and flag, every other entry as it was.                     *)
OnlyOwnEntry(before, after, id, img, err) ==
    /\ Len(after) = Len(before)
    /\ \A i \in 1..Len(before) :
          IF before[i].id = id
          THEN after[i].id = id /\ after[i].imageUrl = img /\ after[i].imageError = err
          ELSE after[i] = before[i]

(* C4 as claimed: whenever generateImage raises, on the first attempt     *)
(* too, the loop settles at once as Rejected.                             *)
C4_AnyRaiseRejects ==
    [][\A id \in DOMAIN loops :
          GenerateImageRaises(id) =>
              /\ Settles(id)
              /\ \A r \in EntriesOf(id)' : HasFailed(r) /\ ~HasImage(r)
      ]_vars

(* C4 amended: a raise on the second attempt settles the loop as Rejected *)
(* (no image, failure flag, advisory); a raise on the first attempt       *)
(* leaves the recipe pending and starts the second attempt with the same  *)
(* prompt.                                                                *)
C4_LastRaiseRejects ==
    [][\A id \in DOMAIN loops :
          LET l == loops[id] IN
          GenerateImageRaises(id) =>
              IF l.attempts = 2
              THEN /\ Settles(id)
                   /\ \A r \in EntriesOf(id)' : HasFailed(r) /\ ~HasImage(r)
                   /\ error' = ImageTroubleMsg
              ELSE /\ ~Settles(id)
                   /\ loops'[id].attempts = 2 /\ loops'[id].pc = "gen"
                   /\ loops'[id].prompts = <<l.prompts[1], l.prompts[1]>>
                   /\ \A r \in EntriesOf(id)' : IsPending(r)
      ]_vars

(* A recipe rejected with its prompt never refined: its first             *)
(* generateImage call raised and the loop went on to a second attempt.    *)
C4_Witness ==
    \E r \in Entries : HasFailed(r) /\ ~HasImage(r) /\ r.imagePrompt[1] = "model"

(* C5: a settling loop changes, in the displayed set and in the gallery,  *)
(* only the entry with its own identifier; the saved set, the selected    *)
(* image and the loading flag stay; a rejection flags no other recipe.    *)
C5_SettleFrame ==
    [][\A id \in DOMAIN loops :
          Settles(id) =>
              /\ (recipes' = NULL) = (recipes = NULL)
              /\ Len(Shown') = Len(Shown)
              /\ Len(popularRecipes') = Len(popularRecipes)
              /\ \A i \in 1..Len(Shown) :
                    /\ Shown'[i].id = Shown[i].id
                    /\ Shown[i].id # id => Shown'[i] = Shown[i]
              /\ \A i \in 1..Len(popularRecipes) :
                    /\ popularRecipes'[i].id = popularRecipes[i].id
                    /\ popularRecipes[i].id # id => popularRecipes'[i] = popularRecipes[i]
              /\ \A r \in Entries' : (HasFailed(r) /\ r \notin Entries) => r.id = id
              /\ savedRecipes' = savedRecipes
              /\ image' = image
              /\ isLoading' = isLoading
      ]_vars

(* One recipe of a displayed pair is rejected, its sibling still pending, *)
(* with a recipe in the saved set.                                        *)
C5_Witness ==
    /\ Len(Shown) = 2
    /\ HasFailed(Shown[1])
    /\ IsPending(Shown[2])
    /\ Len(savedRecipes) = 1

(* C6: whatever the other loops do and in whatever order they finish, a   *)
(* recipe stays pending while its loop runs, a loop step that settles     *)
(* nothing changes no collection, and a settling loop writes the outcome  *)
(* of its own gateway answers into its own entry and nothing else.        *)
C6_OrderIndependent ==
    /\ [](\A id \in DOMAIN loops : \A r \in EntriesOf(id) : IsPending(r))
    /\ [][LoopStep =>
            \A id \in DOMAIN loops :
              LET l == loops[id]
                  img == IF ValidateImageReturns(id, TRUE)
                         THEN generatedBase64(id, l.attempts) ELSE 0
                  err == IF ValidateImageReturns(id, TRUE) THEN "false" ELSE "true"
              IN  /\ ValidateImageReturns(id, TRUE) => Settles(id)
                  /\ Settles(id) =>
                        /\ (recipes' = NULL) = (recipes = NULL)
                        /\ OnlyOwnEntry(Shown, Shown', id, img, err)
                        /\ OnlyOwnEntry(popularRecipes, popularRecipes', id, img, err)
                  /\ (\A j \in DOMAIN loops : ~Settles(j)) =>
                        recipes' = recipes /\ popularRecipes' = popularRecipes
      ]_vars

(* Both loops of a displayed pair have settled, one accepted at its       *)
(* second attempt and one rejected.                                       *)
C6_Witness ==
    /\ Len(Shown) = 2
    /\ Shown[1].imageUrl = generatedBase64(Shown[1].id, 2)
    /\ HasFailed(Shown[2])

InFlight(r) == r.pc \in {"classify", "fetchImage", "fetchGeneric"}

(* C7: a fresh request classifies the image exactly once and then makes   *)
(* exactly one text fetch, from the image when the answer is yes and the  *)
(* generic one otherwise; in the not-food case the advisory is raised and *)
(* a list answered by the generic fetch ends the request with those       *)
(* recipes displayed, not with an error.                                  *)
C7_FreshRequest ==
    /\ [](req.kind = "fresh" =>
            /\ req.classifyCalls = 1
            /\ req.imageFetchCalls + req.genericFetchCalls =
                  (IF req.pc = "classify" THEN 0 ELSE 1)
            /\ req.pc # "classify" =>
                  /\ req.isFood \in {"true", "false"}
                  /\ req.imageFetchCalls = (IF req.isFood = "true" THEN 1 ELSE 0)
            /\ req.pc = "fetchImage" => req.isFood = "true"
            /\ req.pc = "fetchGeneric" => req.isFood = "false")
    /\ [][/\ (HandleGetRecipes /\ image # 0) =>
                req'.kind = "fresh" /\ req'.pc = "classify" /\ req'.exclude = <<>>
          /\ \A answer \in {"yes", "no", "error"} :
                IsFoodImageReturns(answer) =>
                    /\ req'.isFood = (IF answer = "yes" THEN "true" ELSE "false")
                    /\ answer # "yes" => error' = NotFoodMsg
          /\ \A raw \in RawListsOver(Names) :
                (TextReturns(raw) /\ req.kind = "fresh" /\ req.isFood = "false") =>
                    /\ req'.pc = "done"
                    /\ recipes' # NULL
                    /\ NamesOf(Shown') = NamesOf(SubSeq(raw, 1, Min(3, Len(raw))))
                    /\ ~isLoading'
                    /\ error' \notin FetchErrors
         ]_vars

(* A fresh request on a picture that is not food has ended with the       *)
(* generic recipes displayed under the not-food advisory.                 *)
C7_Witness ==
    /\ req.kind = "fresh" /\ req.pc = "done" /\ req.isFood = "false"
    /\ req.genericFetchCalls = 1 /\ req.classifyCalls = 1
    /\ Len(Shown) = 2 /\ IdsOf(Shown) = req.batch
    /\ error = NotFoodMsg
    /\ ~isLoading

(* C8 as claimed: with the batch of the last round still displayed, load  *)
(* more fetches the generic recipes exactly when that round fetched the   *)
(* generic recipes, and from the image exactly when that round did.       *)
C8_LoadMoreFollowsRound ==
    [][(/\ HandleLoadMoreRecipes
        /\ req.pc = "done"
        /\ IdsOf(Shown) = req.batch
        /\ Len(req.batch) > 0) =>
            /\ (req'.pc = "fetchGeneric") = (req.genericFetchCalls = 1)
            /\ (req'.pc = "fetchImage") = (req.imageFetchCalls = 1)
      ]_vars

(* C9: a text answer replaces the displayed set by the new batch (new     *)
(* identifiers only), every recipe of it pending, with the loading state  *)
(* released, while each of its image loops has only issued its first      *)
(* generateImage call.                                                    *)
C9_TextBeforeImages ==
    [][\A raw \in RawListsOver(Names) :
          TextReturns(raw) =>
              LET n == Min(3, Len(raw)) IN
              /\ recipes' # NULL
              /\ NamesOf(Shown') = NamesOf(SubSeq(raw, 1, n))
              /\ ~isLoading'
              /\ \A i \in 1..n :
                    LET r == Shown'[i] IN
                    /\ IsPending(r) /\ r.imageError = "unset"
                    /\ r.id > uuid
                    /\ \A old \in Range(Shown) : old.id # r.id
                    /\ r.id \in DOMAIN loops' \ DOMAIN loops
                    /\ loops'[r.id].attempts = 1
                    /\ loops'[r.id].pc = "gen"
                    /\ loops'[r.id].genLog = <<>>
      ]_vars

(* The text of a batch of two is on the page, loading released, both      *)
(* image loops waiting for their first generateImage call.                *)
C9_Witness ==
    /\ req.pc = "done"
    /\ ~isLoading
    /\ Len(Shown) = 2
    /\ IdsOf(Shown) = req.batch
    /\ \A i \in 1..2 :
          /\ IsPending(Shown[i])
          /\ Shown[i].id \in DOMAIN loops
          /\ loops[Shown[i].id].attempts = 1
          /\ loops[Shown[i].id].genLog = <<>>

(* A raw list that repeats none of the excluded names.                    *)
Honours(raw, exclude) ==
    \A i \in 1..Len(raw) : raw[i].recipeName \notin Range(exclude)

(* C10: load more passes the names of the recipes displayed when it is    *)
(* requested, in order; so no list that honours the exclusion, and no     *)
(* batch displayed from such a list, repeats a name of that set.          *)
C10_ExclusionIsDisplayedNames ==
    [][/\ HandleLoadMoreRecipes =>
            /\ req'.kind = "more"
            /\ req'.exclude = NamesOf(Shown)
            /\ \A raw \in RawListsOver(MoreNames) :
                  Honours(raw, req'.exclude) =>
                      \A i \in 1..Len(raw) : \A j \in 1..Len(Shown) :
                          raw[i].recipeName # Shown[j].recipeName
       /\ \A raw \in RawListsOver(MoreNames) :
            (TextReturns(raw) /\ req.kind = "more" /\ Honours(raw, req.exclude)) =>
                \A r \in Range(Shown') : r.recipeName \notin Range(req.exclude)
      ]_vars

(* A load more in flight that excludes two different names.               *)
C10_Witness ==
    /\ req.kind = "more"
    /\ req.pc = "fetchImage"
    /\ Len(req.exclude) = 2
    /\ req.exclude[1] # req.exclude[2]

(* The image loop of recipe id belongs to a batch that is certainly no    *)
(* longer the displayed one: it is not a gallery loop, and Start Over     *)
(* cleared the picture, or a later request is under way or has failed, or *)
(* the batch of the last round does not hold it.                          *)
Stale(id) ==
    /\ id \in DOMAIN loops
    /\ id \notin Range(IdsOf(popularRecipes))
    /\ \/ image = 0
       \/ req.pc # "done"
       \/ id \notin Range(req.batch)

(* C11 as claimed: a stale loop that settles changes nothing in the       *)
(* displayed recipe set nor in the gallery.                               *)
C11_StaleChangesNothing ==
    [][\A id \in DOMAIN loops :
          (Stale(id) /\ Settles(id)) =>
              recipes' = recipes /\ popularRecipes' = popularRecipes
      ]_vars

(* C11 amended: a stale loop that settles leaves the gallery and every    *)
(* displayed recipe with another identifier as they were, so a new batch  *)
(* is untouched; the one recipe it can change is a copy with its own      *)
(* identifier, displayed alone after it was opened from the saved list.   *)
C11_StaleChangesOwnCopyOnly ==
    [][\A id \in DOMAIN loops :
          (Stale(id) /\ Settles(id)) =>
              /\ popularRecipes' = popularRecipes
              /\ (recipes' = NULL) = (recipes = NULL)
              /\ Len(Shown') = Len(Shown)
              /\ \A i \in 1..Len(Shown) :
                    Shown[i].id # id => Shown'[i] = Shown[i]
              /\ (\E i \in 1..Len(Shown) : Shown[i].id = id) => Len(Shown) = 1
              /\ (req.pc = "done" /\ image # 0 /\ IdsOf(Shown) = req.batch) =>
                    recipes' = recipes
      ]_vars

(* After Start Over, with no gallery, the saved copy of a recipe was      *)
(* opened while pending and the loop of its cleared batch has then given  *)
(* the displayed copy its image; the saved copy is still pending.         *)
C11_Witness ==
    /\ image = 0
    /\ popular = "done" /\ popularRecipes = <<>>
    /\ Len(Shown) = 1 /\ HasImage(Shown[1])
    /\ Len(savedRecipes) = 1
    /\ savedRecipes[1].id = Shown[1].id /\ IsPending(savedRecipes[1])

(* C12 as claimed: a stale loop that settles, as Rejected too, leaves the *)
(* advisory as it was: empty after Start Over, the not-food advisory of   *)
(* the new round when there is one.                                       *)
C12_StaleSettlesSilently ==
    [][\A id \in DOMAIN loops :
          (Stale(id) /\ Settles(id)) => error' = error
      ]_vars

(* C13 as claimed: a failed text fetch ends the request with no recipe    *)
(* displayed, the error's message as the advisory, the loading state      *)
(* released and no image loop dispatched.                                 *)
C13_FailedFetchShowsNothing ==
    [][\A msg \in FetchErrors :
          TextRaises(msg) =>
              /\ recipes' = NULL
              /\ error' = msg
              /\ ~isLoading'
              /\ loops' = loops
      ]_vars

(* C13 amended: a failed text fetch displays no recipe of its own: the    *)
(* displayed set stays what it was when the fetch failed, which is empty  *)
(* unless a saved recipe was opened while the request was loading (then   *)
(* that one recipe); the advisory is the error's message, the loading     *)
(* state is released, no image loop is dispatched and no identifier used. *)
C13_FailedFetchAddsNothing ==
    /\ [](InFlight(req) => Len(Shown) <= 1 /\ isLoading)
    /\ [][\A msg \in FetchErrors :
            TextRaises(msg) =>
                /\ recipes' = recipes
                /\ error' = msg
                /\ ~isLoading'
                /\ loops' = loops
                /\ uuid' = uuid
                /\ req'.pc = "failed" /\ req'.batch = <<>>
                /\ popularRecipes' = popularRecipes
        ]_vars

(* A load more has failed on a non-list answer: nothing displayed, the    *)
(* message on the page, loading released.                                 *)
C13_Witness ==
    /\ req.kind = "more" /\ req.pc = "failed"
    /\ error = NotListMsg
    /\ recipes = NULL
    /\ ~isLoading

(* C14: a classification call that fails is answered false, not raised:  *)
(* the fresh request goes on to the not-food fallback (advisory raised,   *)
(* one generic fetch, no fetch from the image, still loading), and a list *)
(* answered by that fetch ends the request with its recipes displayed     *)
(* under the not-food advisory, never under an error message.             *)
C14_ClassifyFailsSafe ==
    [][/\ IsFoodImageReturns("error") =>
            /\ req.kind = "fresh"
            /\ req'.isFood = "false"
            /\ req'.pc = "fetchGeneric"
            /\ req'.genericFetchCalls = 1 /\ req'.imageFetchCalls = 0
            /\ error' = NotFoodMsg
            /\ isLoading' /\ recipes' = recipes
       /\ \A raw \in RawListsOver(Names) :
            (TextReturns(raw) /\ req.kind = "fresh" /\ req.classifyLog = <<"error">>) =>
                /\ req.pc = "fetchGeneric" /\ req'.pc = "done"
                /\ recipes' # NULL
                /\ NamesOf(Shown') = NamesOf(SubSeq(raw, 1, Min(3, Len(raw))))
                /\ ~isLoading'
                /\ error' \notin FetchErrors
                /\ error = NotFoodMsg => error' = NotFoodMsg
      ]_vars

(* A fresh request whose classification call failed has ended with two    *)
(* generic recipes displayed under the not-food advisory.                 *)
C14_Witness ==
    /\ req.kind = "fresh" /\ req.pc = "done"
    /\ req.classifyLog = <<"error">>
    /\ req.genericFetchCalls = 1 /\ req.imageFetchCalls = 0
    /\ Len(Shown) = 2 /\ IdsOf(Shown) = req.batch
    /\ error = NotFoodMsg
    /\ ~isLoading

(* C15: handleGetRecipes called with no picture selected sets the         *)
(* select-an-image advisory and does nothing else: no gateway call is     *)
(* made, no request or image loop begins, and the displayed set, the      *)
(* loading state, the saved set and the selected cuisines are unchanged.  *)
C15_NoImageIsUserError ==
    [][HandleGetRecipesNoImage =>
          /\ error' = SelectImageMsg
          /\ req' = req
          /\ loops' = loops
          /\ uuid' = uuid
          /\ recipes' = recipes
          /\ isLoading' = isLoading
          /\ savedRecipes' = savedRecipes
          /\ selectedCuisines' = selectedCuisines
          /\ image' = image /\ popularRecipes' = popularRecipes
      ]_vars

(* The advisory is on the page with no picture selected, beside a         *)
(* displayed recipe and a saved one.                                      *)
C15_Witness ==
    /\ error = SelectImageMsg
    /\ image = 0
    /\ Len(Shown) = 1
    /\ Len(savedRecipes) = 1

SavedIds == Range(IdsOf(savedRecipes))
ToggledTwice(r) == saveToggle(saveToggle(savedRecipes, r), r)
Without(list, id) == SelectSeq(list, LAMBDA x : x # id)

(* The saved set has no two recipes with one identifier.                  *)
SavedHasNoDuplicates == [](NoDuplicateIds(savedRecipes))

(* A toggle adds the recipe exactly when it was not saved and removes it  *)
(* when it was, a removal takes the recipe out, and neither changes       *)
(* whether any other recipe is saved.                                     *)
SavedFollowsLastOperation ==
    [][/\ \A r \in Cards :
            handleSaveToggle(r) =>
                /\ (r.id \in SavedIds') = (r.id \notin SavedIds)
                /\ SavedIds' \ {r.id} = SavedIds \ {r.id}
       /\ \A id \in SavedIds :
            HandleRemoveSavedRecipe(id) =>
                /\ id \notin SavedIds'
                /\ SavedIds' = SavedIds \ {id}
      ]_vars

(* C16 as claimed: no duplicate identifiers, membership follows the last  *)
(* operation, and two toggles of one recipe in a row give back the same   *)
(* identifiers in the same order.                                         *)
C16_ToggleTwiceSameOrder ==
    /\ SavedHasNoDuplicates
    /\ SavedFollowsLastOperation
    /\ [](\A r \in Cards : IdsOf(ToggledTwice(r)) = IdsOf(savedRecipes))

(* C16 amended: no duplicate identifiers, membership follows the last     *)
(* operation, and two toggles of one recipe in a row give back the same   *)
(* set of identifiers: in the same order when the recipe was not saved,   *)
(* and with the recipe moved to the end, as the copy on the page, when it *)
(* was saved.                                                             *)
C16_ToggleTwiceSameIds ==
    /\ SavedHasNoDuplicates
    /\ SavedFollowsLastOperation
    /\ [](\A r \in Cards :
            /\ Range(IdsOf(ToggledTwice(r))) = SavedIds
            /\ r.id \notin SavedIds => ToggledTwice(r) = savedRecipes
            /\ r.id \in SavedIds =>
                  /\ IdsOf(ToggledTwice(r)) =
                        Append(Without(IdsOf(savedRecipes), r.id), r.id)
                  /\ ToggledTwice(r)[Len(savedRecipes)] = r)

(* Every recipe of the page is saved after a recipe of an earlier         *)
(* session, the first recipe of the page last: it was toggled out and in  *)
(* again.                                                                 *)
C16_Witness ==
    /\ Len(savedRecipes) = SliceLimit + 1
    /\ savedRecipes[1].id < 0
    /\ savedRecipes[Len(savedRecipes)] = Shown[1]

(* The records a fetch operation gives back for the raw list, and the     *)
(* list the orchestrator builds from them.                                *)
Fetched(raw) == parseAndPrepareRecipes(raw, uuid)
Normalized(raw) == recipesWithPlaceholders(Fetched(raw), uuid + Len(Fetched(raw)))

(* C17 as claimed: a fetch operation answered with a list, of any length, *)
(* gives back between 1 and 3 recipes, and as many are put on the page or *)
(* in the gallery.                                                        *)
C17_OneToThreeRecipes ==
    [][\A raw \in LongRawLists :
          /\ TextAnswered(raw) =>
                /\ Len(Fetched(raw)) \in 1..3
                /\ Len(Shown') \in 1..3
          /\ PopularAnswered(raw) =>
                /\ Len(Fetched(raw)) \in 1..3
                /\ Len(popularRecipes') \in 1..3
      ]_vars

(* The list is the raw list cut after its third record: as long as the    *)
(* raw list or 3 long, whichever is less, and record for record the raw   *)
(* list's name and prompt, in the raw list's order.                       *)
FirstThreeOf(list, raw) ==
    /\ Len(raw) > 3 => Len(list) = 3
    /\ Len(raw) <= 3 => Len(list) = Len(raw)
    /\ \A i \in 1..Len(list) :
          /\ list[i].recipeName = raw[i].recipeName
          /\ list[i].imagePrompt = raw[i].imagePrompt

(* C18: what a fetch gives back, and what the orchestrator puts on the    *)
(* page or in the gallery from it, is the first 3 records of a raw list   *)
(* longer than 3, and every record of a shorter one, in the raw order.    *)
C18_FirstThreeInOrder ==
    [][\A raw \in LongRawLists :
          /\ TextAnswered(raw) =>
                /\ FirstThreeOf(Fetched(raw), raw)
                /\ recipes' # NULL /\ FirstThreeOf(Shown', raw)
                /\ NoDuplicateIds(Shown')
          /\ PopularAnswered(raw) =>
                /\ FirstThreeOf(Fetched(raw), raw)
                /\ FirstThreeOf(popularRecipes', raw)
      ]_vars

(* A raw list of 4 was answered and 3 recipes are displayed, the third    *)
(* under a name the first two do not have.                                *)
C18_Witness ==
    /\ req.pc = "done" /\ req.rawLen = 4
    /\ Len(Shown) = 3 /\ IdsOf(Shown) = req.batch
    /\ NamesOf(Shown) = <<1, 1, 2>>

(* The phrases "M unit" of an instruction: a run of digits, any spaces,   *)
(* a unit word.                                                           *)
AllOf(isClass(_), s, from, to) == \A k \in from..to : isClass(s[k])
SimplePhrases(s) ==
    {x \in [mFrom : 1..Len(s), mTo : 1..Len(s), unitAt : 1..Len(s)] :
        /\ x.mFrom <= x.mTo /\ x.mTo < x.unitAt
        /\ AllOf(isDigit, s, x.mFrom, x.mTo)
        /\ AllOf(isSpace, s, x.mTo + 1, x.unitAt - 1)
        /\ toLowerCase(s[x.unitAt]) \in {"minute", "hour"}}

(* The phrases "N to M unit": a run of digits, any spaces, "to", any      *)
(* spaces, then a phrase "M unit".                                        *)
RangePhrases(s) ==
    {y \in [start : 1..Len(s), nTo : 1..Len(s), toAt : 1..Len(s), m : SimplePhrases(s)] :
        /\ y.start <= y.nTo /\ y.nTo < y.toAt /\ y.toAt + 1 < y.m.mFrom
        /\ AllOf(isDigit, s, y.start, y.nTo)
        /\ AllOf(isSpace, s, y.nTo + 1, y.toAt - 1)
        /\ toLowerCase(s[y.toAt]) = "t" /\ toLowerCase(s[y.toAt + 1]) = "o"
        /\ AllOf(isSpace, s, y.toAt + 2, y.m.mFrom - 1)}

(* Every phrase "[N to] M unit" with where it starts and what it is worth. *)
DecimalValue(s, from, to) ==
    LET RECURSIVE val(_)
        val(k) == IF k < from THEN 0 ELSE 10 * val(k - 1) + DigitValue(s[k])
    IN  val(to)
Worth(s, m) ==
    DecimalValue(s, m.mFrom, m.mTo)
        * (IF toLowerCase(s[m.unitAt]) = "hour" THEN 3600 ELSE 60)
Phrases(s) ==
    {[start |-> m.mFrom, seconds |-> Worth(s, m)] : m \in SimplePhrases(s)}
    \cup {[start |-> y.start, seconds |-> Worth(s, y.m)] : y \in RangePhrases(s)}

(* What the parser must answer for the instruction.                       *)
ParsedRight(s, parsed) ==
    /\ parsed.text = s
    /\ Phrases(s) = {} => parsed.timeInSeconds = NULL
    /\ \A x \in Phrases(s) :
          (\A y \in Phrases(s) : x.start <= y.start) =>
              parsed.timeInSeconds = Some(x.seconds)

Chars(str) ==
    CASE str = "Let rest 5 to 10 minutes" ->
            <<"L", "e", "t", " ", "r", "e", "s", "t", " ", "5", " ", "t", "o", " ",
              "1", "0", " ", "minute", "s">>
      [] str = "Bake for 1 hour" ->
            <<"B", "a", "k", "e", " ", "f", "o", "r", " ", "1", " ", "hour">>
      [] str = "Add salt to taste" ->
            <<"A", "d", "d", " ", "s", "a", "l", "t", " ", "t", "o", " ",
              "t", "a", "s", "t", "e">>

(* C19: for every instruction step on the page the parser answers the     *)
(* unchanged text and the duration of the first phrase "[N to] M unit",   *)
(* M times 60 for minutes and times 3600 for hours, or no duration when   *)
(* there is no such phrase; the timer a step's button starts has that     *)
(* duration; and the three instructions of the claim give 600, 3600 and   *)
(* no duration.                                                           *)
C19_FirstPhraseDuration ==
    /\ [](\A r \in Range(Shown) : \A i \in 1..Len(r.instructions) :
            ParsedRight(r.instructions[i], parseInstructionForTime(r.instructions[i])))
    /\ [][\A r \in Range(Shown) : \A i \in 1..Len(r.instructions) :
            HandleStartTimer(r, i) =>
                /\ Phrases(r.instructions[i]) # {}
                /\ \E x \in Phrases(r.instructions[i]) :
                      /\ \A y \in Phrases(r.instructions[i]) : x.start <= y.start
                      /\ timerConfig' = Some([duration |-> x.seconds,
                                              description |-> r.instructions[i]])
       ]_vars
    /\ parseInstructionForTime(Chars("Let rest 5 to 10 minutes")).timeInSeconds = Some(600)
    /\ parseInstructionForTime(Chars("Bake for 1 hour")).timeInSeconds = Some(3600)
    /\ parseInstructionForTime(Chars("Add salt to taste")).timeInSeconds = NULL

(* The timer of the step "1to2minute" runs: 120 seconds, from the second  *)
(* number of the range.                                                   *)
C19_Witness ==
    /\ timerConfig = Some([duration |-> 120,
                           description |-> <<"1", "t", "o", "2", "minute">>])
    /\ Shown[1].instructions = <<timerConfig[1].description>>

(* C20 as claimed: for every recipe on the page the share link is built   *)
(* and, read back, gives a recipe with the same identifier and name; and  *)
(* opening the link that was copied for the displayed recipe displays     *)
(* that recipe alone.                                                     *)
C20_ShareRoundTrip ==
    /\ [](\A r \in Cards :
            /\ generateShareableLink(r) # NULL
            /\ LET back == decodeRecipe(urlParamsGet(generateShareableLink(r)[1]))
               IN  /\ back # NULL
                   /\ back[1].id = r.id
                   /\ back[1].recipeName = r.recipeName)
    /\ [][(OpenSharedLink /\ recipes # NULL
              /\ clipboard = generateShareableLink(Shown[1])) =>
            /\ Len(Shown') = 1
            /\ Shown'[1].id = Shown[1].id
            /\ Shown'[1].recipeName = Shown[1].recipeName
            /\ error' = NoError
       ]_vars

(* C21 as claimed: whenever Find Recipes or Load more has set the loading *)
(* state, the loading state is released at some later point, the gateway  *)
(* calls of the request coming back with an answer or a raise; this from  *)
(* every state that offers the button, a displayed set opened from the    *)
(* saved list with no picture selected included.                          *)
C21_LoadingIsReleased == isLoading ~> ~isLoading

(* An entry that differs from another in its image and failure flag only. *)
SameButImage(before, after) ==
    after = [before EXCEPT !.imageUrl = after.imageUrl,
                           !.imageError = after.imageError]

(* C22 as claimed: the mutation a loop applies when it settles changes    *)
(* only the image and the failure flag of its recipe; identifier, name    *)
(* and image prompt of the entry in the displayed set and in the gallery  *)
(* are what they were, for every outcome, one through Refining included.  *)
C22_SettleChangesImageOnly ==
    [][\A id \in DOMAIN loops :
          Settles(id) =>
              /\ \A i \in 1..Len(Shown) :
                    Shown[i].id = id => SameButImage(Shown[i], Shown'[i])
              /\ \A i \in 1..Len(popularRecipes) :
                    popularRecipes[i].id = id =>
                        SameButImage(popularRecipes[i], popularRecipes'[i])
      ]_vars

(* The prompt the model wrote for the recipe a loop works on.             *)
OriginalPrompt(l) == recipeSchema(l.currentRecipe.recipeName).imagePrompt

(* The first validation of the loop failed with an attempt remaining.     *)
HasRefined(l) == l.genLog # <<>> /\ l.genLog[1] = "ok" /\ l.valLog # <<>> /\ ~l.valLog[1]

(* C23: the first generateImage call of a loop is made with the recipe's  *)
(* original prompt; a second call that follows a failed validation is     *)
(* made with the refined prompt (a second call that follows a raise, with *)
(* the original one); and the loop's prompt is rewritten only in the step *)
(* in which validation fails with an attempt remaining: not after the     *)
(* final attempt, not after an accepted image, not when a call raises.    *)
C23_PromptRefinedOnlyOnRetry ==
    /\ [](\A id \in DOMAIN loops :
            LET l == loops[id] IN
            /\ l.prompts[1] = OriginalPrompt(l)
            /\ Len(l.prompts) = 2 =>
                  l.prompts[2] = IF HasRefined(l) THEN refinedPrompt(l.currentRecipe)
                                 ELSE OriginalPrompt(l)
            /\ l.currentRecipe.imagePrompt =
                  IF HasRefined(l) THEN refinedPrompt(l.currentRecipe)
                  ELSE OriginalPrompt(l))
    /\ [][\A id \in DOMAIN loops :
            LET l == loops[id] IN
            IF Settles(id)
            THEN \A r \in EntriesOf(id)' : r.imagePrompt = l.currentRecipe.imagePrompt
            ELSE (loops'[id].currentRecipe.imagePrompt # l.currentRecipe.imagePrompt)
                    <=> /\ ValidateImageReturns(id, FALSE)
                        /\ l.attempts < MAX_ATTEMPTS
      ]_vars

(* A loop whose second generateImage call is out with the refined prompt, *)
(* and a loop whose second call is out with the original one.             *)
C23_Witness ==
    /\ \E id \in DOMAIN loops :
          /\ loops[id].pc = "gen"
          /\ loops[id].valLog = <<FALSE>>
          /\ loops[id].prompts = <<OriginalPrompt(loops[id]), refinedPrompt(loops[id].currentRecipe)>>
    /\ \E id \in DOMAIN loops :
          /\ loops[id].genLog = <<"raise">>
          /\ loops[id].prompts = <<OriginalPrompt(loops[id]), OriginalPrompt(loops[id])>>

(* What the timer button of step i of card r asks for, when rendered.     *)
TimerRequest(r, i) ==
    LET parsed == parseInstructionForTime(r.instructions[i])
    IN  [duration |-> parsed.timeInSeconds[1], description |-> parsed.text]

TimerOffered(r, i) ==
    LET parsed == parseInstructionForTime(r.instructions[i])
    IN  parsed.timeInSeconds # NULL /\ parsed.timeInSeconds[1] # 0

FreshTimer(d) == Some([timeLeft |-> d, isActive |-> TRUE])

(* C24 as claimed: there is one timer or none; and in every state (no     *)
(* timer; a running, paused or finished timer; a timer started with the   *)
(* same duration and description) a start-timer action for (d, s) gives   *)
(* the one timer for (d, s), with d seconds left and running.             *)
C24_StartGivesFreshTimer ==
    /\ []((timerConfig = NULL) <=> (timerWidget = NULL))
    /\ [](\A r \in Cards : \A i \in 1..Len(r.instructions) :
            TimerOffered(r, i) =>
                renderTimerWidget(timerConfig, timerWidget, TimerRequest(r, i))
                    = FreshTimer(TimerRequest(r, i).duration))
    /\ [][\A r \in Cards : \A i \in 1..Len(r.instructions) :
            HandleStartTimer(r, i) =>
                /\ timerConfig' = Some(TimerRequest(r, i))
                /\ timerWidget' = FreshTimer(TimerRequest(r, i).duration)
      ]_vars

(* The recipe with the identifier is on the page, in the displayed set or *)
(* in the gallery, with no image and no failure flag.                     *)
DisplayedPending(id) == \E r \in EntriesOf(id) : IsPending(r)

(* C25 as claimed: with every gateway call coming back, a recipe that is  *)
(* displayed pending does not stay so: it gets its image or its failure   *)
(* flag (or leaves the page), whether it came from a fetch batch or was   *)
(* opened from the saved list, where it was saved while pending.          *)
C25_PendingIsResolved ==
    \A id \in LoopIds : DisplayedPending(id) ~> ~DisplayedPending(id)

====
